---- MODULE Spec2Model ----
(***************************************************************************)
(* A model of src/t2i_adapters/adapters.py: the Downsample layer, the      *)
(* ResnetBlock, the Adapter (construction, extract_patch, forward,         *)
(* from_pretrained) and patch_pipe.                                        *)
(*                                                                         *)
(* Tensors are modelled by their shape, a sequence <<N, C, d1, ..., dk>>,  *)
(* and, where the batch entries matter, by one label per batch entry.      *)
(* A call that raises is a result whose err field names the exception.     *)
(***************************************************************************)
EXTENDS Integers, Sequences, FiniteSets, TLC

VARIABLES
    module,   \* the Downsample, ResnetBlock or Adapter under study
    call,     \* the last call made, with its arguments and its result
    pipe,     \* patch_pipe: the pipeline; pipe.unet names the object it refers to
    unet,     \* patch_pipe: the U-Net the pipeline came with
    a_unet,   \* patch_pipe: the local a_unet
    pc,       \* patch_pipe: the statement to run next (-1 once one has raised)
    unet0     \* patch_pipe: the U-Net the pipeline came with, as it was on entry

vars == <<module, call, pipe, unet, a_unet, pc, unet0>>

\* ------------------------------------------------------------------ bounds
\* Largest spatial size of an input of Downsample.forward / ResnetBlock.forward.
MaxSize == 4
\* Largest kernel size of a ResnetBlock / Adapter.
MaxKsize == 3
\* Largest nums_rb of an Adapter.
MaxRb == 2
\* Largest batch size, and largest b and n of a cube.
MaxBatch == 2

\* ---------------------------------------------------------------- values
None == [kind |-> "None"]

Channels == {320, 640}

Ok(shape) == [err |-> "ok", shape |-> shape]

Raise(e) == [err |-> e, shape |-> <<>>]

\* ------------------------------------------------- torch layers (shapes)
\* Output length of a convolution along one dimension.
ConvOut(n, k, s, p) == ((n + 2 * p - k) \div s) + 1

\* Output length of an average pooling along one dimension (no padding).
PoolOut(n, k, s) == IF n < k THEN 0 ELSE ((n - k) \div s) + 1

Rep(dims, v) == [i \in 1..dims |-> v]

\* conv_nd(dims, in, out, kernel, stride=, padding=)
conv_nd(dims, cin, cout, kernel, stride, padding) ==
    IF dims \in 1..3
    THEN [kind |-> "Conv", dims |-> dims, cin |-> cin, cout |-> cout,
          kernel |-> Rep(dims, kernel), stride |-> stride,
          padding |-> Rep(dims, padding)]
    ELSE [kind |-> "ValueError"]

\* avg_pool_nd(dims, kernel_size=stride, stride=stride)
avg_pool_nd(dims, kernel, stride) ==
    IF dims \in 1..3
    THEN [kind |-> "AvgPool", dims |-> dims, cin |-> 0, cout |-> 0,
          kernel |-> kernel, stride |-> stride, padding |-> Rep(dims, 0)]
    ELSE [kind |-> "ValueError"]

\* nn.Conv2d(in, out, kernel, stride, padding)
Conv2d(cin, cout, kernel, stride, padding) ==
    conv_nd(2, cin, cout, kernel, Rep(2, stride), padding)

\* The spatial sizes of an op's output, one per dimension.
OpSpatial(op, shape) ==
    [i \in 1..op.dims |->
        IF op.kind = "Conv"
        THEN IF shape[i + 2] + 2 * op.padding[i] < op.kernel[i] THEN 0
             ELSE ConvOut(shape[i + 2], op.kernel[i], op.stride[i], op.padding[i])
        ELSE PoolOut(shape[i + 2], op.kernel[i], op.stride[i])]

\* op(x): a convolution checks the rank and the channels of x and maps them
\* to its output channels; a pooling keeps them. An empty output raises.
Apply(op, shape) ==
    IF Len(shape) # op.dims + 2 THEN Raise("RuntimeError: rank")
    ELSE IF op.kind = "Conv" /\ shape[2] # op.cin THEN Raise("RuntimeError: channels")
    ELSE LET sp == OpSpatial(op, shape) IN
         IF \E i \in 1..op.dims : sp[i] < 1 THEN Raise("RuntimeError: size")
         ELSE Ok(<<shape[1], IF op.kind = "Conv" THEN op.cout ELSE shape[2]>> \o sp)

\* a + b with broadcasting.
Add(a, b) ==
    IF Len(a) # Len(b) THEN Raise("RuntimeError: add")
    ELSE IF \E i \in 1..Len(a) : a[i] # b[i] /\ a[i] # 1 /\ b[i] # 1
         THEN Raise("RuntimeError: add")
         ELSE Ok([i \in 1..Len(a) |-> IF a[i] = 1 THEN b[i] ELSE a[i]])

\* ------------------------------------------------------------ Downsample
\* (mutant) the stride without the dims == 3 case.
DownsampleStrideAll(dims) == Rep(dims, 2)

\* stride = 2 if dims != 3 else (1, 2, 2)
DownsampleStride(dims) == IF dims # 3 THEN Rep(dims, 2) ELSE <<1, 2, 2>>

\* Downsample.__init__; out_channels = 0 stands for None.
Downsample(channels, use_conv, dims, out_channels, padding) ==
    LET oc == IF out_channels = 0 THEN channels ELSE out_channels
        stride == DownsampleStride(dims)
        op == IF use_conv
              THEN conv_nd(dims, channels, oc, 3, stride, padding)
              ELSE avg_pool_nd(dims, stride, stride)
    IN  IF ~use_conv /\ channels # oc THEN [kind |-> "AssertionError"]
        ELSE IF op.kind = "ValueError" THEN op
        ELSE [kind |-> "Downsample", channels |-> channels, out_channels |-> oc,
              use_conv |-> use_conv, dims |-> dims, op |-> op]

\* Downsample.forward
DownsampleForward(self, shape) ==
    IF shape[2] # self.channels THEN Raise("AssertionError")
    ELSE Apply(self.op, shape)

\* ----------------------------------------------------------- ResnetBlock
\* (mutant) the padding of block1 used for every kernel size.
PaddingOne(ksize) == 1

\* ps = ksize // 2
Padding(ksize) == ksize \div 2

\* (mutant) `and` in place of `or`.
HasInConvAnd(in_c, out_c, sk) == in_c # out_c /\ sk = FALSE

\* if in_c != out_c or sk == False
HasInConv(in_c, out_c, sk) == in_c # out_c \/ sk = FALSE

\* ResnetBlock.__init__
ResnetBlock(in_c, out_c, down, ksize, sk, use_conv) ==
    LET ps == Padding(ksize)
        in_conv == IF HasInConv(in_c, out_c, sk)
                   THEN Conv2d(in_c, out_c, ksize, 1, ps)
                   ELSE None
    IN  [kind |-> "ResnetBlock", in_c |-> in_c, out_c |-> out_c,
         in_conv |-> in_conv,
         block1 |-> Conv2d(out_c, out_c, 3, 1, 1),
         block2 |-> Conv2d(out_c, out_c, ksize, 1, ps),
         skep |-> IF in_conv = None THEN Conv2d(in_c, out_c, ksize, 1, ps) ELSE None,
         down |-> down,
         down_opt |-> IF down THEN Downsample(in_c, use_conv, 2, 0, 1) ELSE None]

\* The result of a forward that raised in layer `at`.
BlockRaise(r, at, path) ==
    [err |-> r.err, at |-> at, shape |-> <<>>, h |-> <<>>, skip |-> <<>>, path |-> path]

\* One layer the shortcut term has passed through.
Through(name, op) == [name |-> name, kind |-> op.kind]

\* ResnetBlock.forward from `x = self.in_conv(x)` on: x is the block's input
\* after the optional downsampling, path the layers it has passed through.
\* self.act (ReLU) keeps the shape of h.
ResnetBlockTail(self, x, path) ==
    LET x1 == IF self.in_conv # None THEN Apply(self.in_conv, x) ELSE Ok(x)
        p1 == IF self.in_conv # None
              THEN Append(path, Through("in_conv", self.in_conv)) ELSE path
    IN  IF x1.err # "ok" THEN BlockRaise(x1, "in_conv", path)
        ELSE LET h1 == Apply(self.block1, x1.shape) IN
        IF h1.err # "ok" THEN BlockRaise(h1, "block1", p1)
        ELSE LET h2 == Apply(self.block2, h1.shape) IN
        IF h2.err # "ok" THEN BlockRaise(h2, "block2", p1)
        ELSE LET s == IF self.skep # None THEN Apply(self.skep, x1.shape) ELSE x1
                 p2 == IF self.skep # None
                       THEN Append(p1, Through("skep", self.skep)) ELSE p1
        IN  IF s.err # "ok" THEN BlockRaise(s, "skep", p1)
            ELSE LET sum == Add(h2.shape, s.shape) IN
                 IF sum.err # "ok"
                 THEN [err |-> sum.err, at |-> "add", shape |-> <<>>,
                       h |-> h2.shape, skip |-> s.shape, path |-> p2]
                 ELSE [err |-> "ok", at |-> "", shape |-> sum.shape,
                       h |-> h2.shape, skip |-> s.shape, path |-> p2]

\* ResnetBlock.forward: the output's shape, the shapes of the two summands
\* (h, skip) and the layers the shortcut summand has passed through.
ResnetBlockForward(self, x) ==
    IF self.down
    THEN LET d == DownsampleForward(self.down_opt, x) IN
         IF d.err # "ok" THEN BlockRaise(d, "down_opt", <<>>)
         ELSE ResnetBlockTail(self, d.shape,
                              <<Through("down_opt", self.down_opt.op)>>)
    ELSE ResnetBlockTail(self, x, <<>>)

\* --------------------------------------------------------------- Adapter
\* nn.PixelUnshuffle(8)
UnshuffleFactor == 8

\* (mutant) every stage starts with a downsampling block.
IsDownBlockEveryStage(i, j) == j = 0

\* if (i != 0) and (j == 0)
IsDownBlock(i, j) == i # 0 /\ j = 0

\* (mutant) the downsampling block takes the channels of its own stage.
DownBlockInOwn(channels, i) == channels[i + 1]

\* channels[i - 1], the input channels of the downsampling block of stage i
\* (Python's index -1 is the last element).
DownBlockIn(channels, i) == IF i = 0 THEN channels[Len(channels)] ELSE channels[i]

\* The loops of Adapter.__init__ that fill self.body, from (i, j) on
\* (0-based, as in the code; channels[i] of the code is channels[i + 1] here).
RECURSIVE BuildBody(_, _, _, _, _, _, _, _)
BuildBody(channels, nums_rb, ksize, sk, use_conv, i, j, body) ==
    IF i >= Len(channels) THEN body
    ELSE IF j >= nums_rb
         THEN BuildBody(channels, nums_rb, ksize, sk, use_conv, i + 1, 0, body)
         ELSE BuildBody(channels, nums_rb, ksize, sk, use_conv, i, j + 1,
                Append(body,
                    IF IsDownBlock(i, j)
                    THEN ResnetBlock(DownBlockIn(channels, i), channels[i + 1], TRUE,
                                     ksize, sk, use_conv)
                    ELSE ResnetBlock(channels[i + 1], channels[i + 1], FALSE,
                                     ksize, sk, use_conv)))

\* Adapter.__init__; weights names where the parameters come from.
Adapter(channels, nums_rb, cin, ksize, sk, use_conv) ==
    [kind |-> "Adapter", unshuffle |-> UnshuffleFactor,
     channels |-> channels, nums_rb |-> nums_rb,
     body |-> BuildBody(channels, nums_rb, ksize, sk, use_conv, 0, 0, <<>>),
     conv_in |-> Conv2d(cin, channels[1], 3, 1, 1),
     weights |-> "init"]

\* (mutant) the channels multiplied by r, not by r * r.
PixelUnshuffleLinear(r, shape) ==
    IF Len(shape) # 4 \/ shape[3] % r # 0 \/ shape[4] % r # 0
    THEN Raise("RuntimeError: unshuffle")
    ELSE Ok(<<shape[1], shape[2] * r, shape[3] \div r, shape[4] \div r>>)

\* self.unshuffle(x) on a shape <<B, C, H, W>>.
PixelUnshuffle(r, shape) ==
    IF Len(shape) # 4 \/ shape[3] % r # 0 \/ shape[4] % r # 0
    THEN Raise("RuntimeError: unshuffle")
    ELSE Ok(<<shape[1], shape[2] * r * r, shape[3] \div r, shape[4] \div r>>)

\* A call of extract_patch that raised at `at` after the blocks of `hist`.
ExtractRaise(err, at, hist, features) ==
    [err |-> err, at |-> at, hist |-> hist, features |-> features]

\* The loops of Adapter.extract_patch from (i, j) on: x is the running shape,
\* hist the indices idx of the blocks applied so far, in order, and a feature
\* is x (its shape, the blocks it went through, its batch entries).
RECURSIVE ExtractLoop(_, _, _, _, _, _, _)
ExtractLoop(self, data, i, j, x, hist, features) ==
    IF i >= Len(self.channels)
    THEN [err |-> "ok", at |-> "", hist |-> hist, features |-> features]
    ELSE IF j >= self.nums_rb
         THEN ExtractLoop(self, data, i + 1, 0, x, hist,
                  Append(features, [shape |-> x, hist |-> hist, data |-> data]))
         ELSE LET idx == i * self.nums_rb + j IN
              IF idx + 1 > Len(self.body)
              THEN ExtractRaise("IndexError", "body", hist, features)
              ELSE LET r == ResnetBlockForward(self.body[idx + 1], x) IN
                   IF r.err # "ok"
                   THEN ExtractRaise(r.err, r.at, hist, features)
                   ELSE ExtractLoop(self, data, i, j + 1, r.shape,
                                    Append(hist, idx), features)

\* Adapter.extract_patch on x = [shape, data]: every layer acts on each batch
\* entry on its own, so batch entry k of a feature comes from data[k].
ExtractPatch(self, x) ==
    LET u == PixelUnshuffle(self.unshuffle, x.shape) IN
    IF u.err # "ok" THEN ExtractRaise(u.err, "unshuffle", <<>>, <<>>)
    ELSE LET c == Apply(self.conv_in, u.shape) IN
         IF c.err # "ok" THEN ExtractRaise(c.err, "conv_in", <<>>, <<>>)
         ELSE ExtractLoop(self, x.data, 0, 0, c.shape, <<>>, <<>>)

\* (mutant) the pattern 'b n c h w -> (n b) c h w'.
FlattenCubeSwapped(cube) ==
    LET b == cube.shape[1]
        n == cube.shape[2]
    IN  [shape |-> <<b * n>> \o SubSeq(cube.shape, 3, 5),
         data |-> [k \in 1..(b * n) |->
                      cube.data[((k - 1) % b) + 1][((k - 1) \div b) + 1]]]

\* rearrange(cube, 'b n c h w -> (b n) c h w')
FlattenCube(cube) ==
    LET b == cube.shape[1]
        n == cube.shape[2]
    IN  [shape |-> <<b * n>> \o SubSeq(cube.shape, 3, 5),
         data |-> [k \in 1..(b * n) |->
                      cube.data[((k - 1) \div n) + 1][((k - 1) % n) + 1]]]

\* rearrange(cube_feat, '(b n) c h w -> b n c h w', b=b, n=n)
UnflattenFeat(feat, b, n) ==
    [shape |-> <<b, n>> \o Tail(feat.shape), hist |-> feat.hist,
     data |-> [p \in 1..b |-> [q \in 1..n |-> feat.data[(p - 1) * n + q]]]]

\* Adapter.forward
AdapterForward(self, cube, pers, process_idxs) ==
    LET b == cube.shape[1]
        n == cube.shape[2]
        cube_feats == ExtractPatch(self, FlattenCube(cube))
    IN  IF cube_feats.err # "ok"
        THEN [err |-> cube_feats.err, cube |-> <<>>, pers |-> <<>>]
        ELSE LET pers_feat == ExtractPatch(self, pers) IN
             IF pers_feat.err # "ok"
             THEN [err |-> pers_feat.err, cube |-> <<>>, pers |-> <<>>]
             ELSE [err |-> "ok",
                   cube |-> [i \in 1..Len(cube_feats.features) |->
                                UnflattenFeat(cube_feats.features[i], b, n)],
                   pers |-> pers_feat.features]

\* (mutant) the files of depth and seg exchanged.
WEB_PATH_Swapped ==
    [sketch |-> "t2iadapter_sketch_sd14v1.pth",
     depth |-> "t2iadapter_seg_sd14v1.pth",
     seg |-> "t2iadapter_depth_sd14v1.pth",
     keypose |-> "t2iadapter_keypose_sd14v1.pth"]

\* WEB_PATH of Adapter.from_pretrained
WEB_PATH ==
    [sketch |-> "t2iadapter_sketch_sd14v1.pth",
     depth |-> "t2iadapter_depth_sd14v1.pth",
     seg |-> "t2iadapter_seg_sd14v1.pth",
     keypose |-> "t2iadapter_keypose_sd14v1.pth"]

\* The Adapter that Adapter.from_pretrained builds for adapter_type.
PretrainedAdapter(adapter_type) ==
    IF adapter_type = "sketch"
    THEN Adapter(<<320, 640, 1280, 1280>>, 2, 64, 1, TRUE, FALSE)
    ELSE Adapter(<<320, 640, 1280, 1280>>, 2, 64 * 3, 1, TRUE, FALSE)

\* Adapter.from_pretrained: fetched tells whether the download succeeded.
FromPretrained(adapter_type, fetched) ==
    LET mod == PretrainedAdapter(adapter_type) IN
    IF adapter_type \notin DOMAIN WEB_PATH THEN [kind |-> "KeyError"]
    ELSE IF ~fetched THEN [kind |-> "HTTPError"]
    ELSE [mod EXCEPT !.weights = WEB_PATH[adapter_type]]

\* ------------------------------------------------------ the state machines
\* module is the nn.Module under study (None before its construction, an
\* exception's name when the constructor raised) and call the last call made
\* with its result.  One call on the module is followed per behaviour: no
\* call changes the module.
NoCall == [op |-> "none"]

PatchIdle ==
    /\ pipe = None /\ unet = None /\ a_unet = None /\ unet0 = None
    /\ pc = 0

PatchUnchanged == UNCHANGED <<pipe, unet, a_unet, pc, unet0>>

InitModule == module = None /\ call = NoCall /\ PatchIdle

\* ---- Downsample
Dims == 1..4

Paddings == {0, 1}

Sizes == 1..MaxSize

Batches == 1..MaxBatch

\* The shapes <<N, C, d1, ..., d_dims>> given to a forward.
Shapes(dims) ==
    {<<nb, c>> \o sp : nb \in Batches, c \in Channels, sp \in [1..dims -> Sizes]}

NewDownsample ==
    /\ module = None
    /\ \E channels \in Channels, use_conv \in BOOLEAN, dims \in Dims,
          out_channels \in Channels \cup {0}, padding \in Paddings :
          module' = Downsample(channels, use_conv, dims, out_channels, padding)
    /\ UNCHANGED call
    /\ PatchUnchanged

CallDownsampleForward ==
    /\ module.kind = "Downsample"
    /\ call = NoCall
    /\ \E x \in Shapes(module.dims) :
          call' = [op |-> "Downsample.forward", x |-> x,
                   out |-> DownsampleForward(module, x)]
    /\ UNCHANGED module
    /\ PatchUnchanged

NextDownsample == NewDownsample \/ CallDownsampleForward

SpecDownsample == InitModule /\ [][NextDownsample]_vars

\* ---- ResnetBlock
Ksizes == 1..MaxKsize

NewResnetBlock ==
    /\ module = None
    /\ \E in_c \in Channels, out_c \in Channels, down \in BOOLEAN,
          ksize \in Ksizes, sk \in BOOLEAN, use_conv \in BOOLEAN :
          module' = ResnetBlock(in_c, out_c, down, ksize, sk, use_conv)
    /\ UNCHANGED call
    /\ PatchUnchanged

CallResnetBlockForward ==
    /\ module.kind = "ResnetBlock"
    /\ call = NoCall
    /\ \E x \in Shapes(2) :
          call' = [op |-> "ResnetBlock.forward", x |-> x,
                   out |-> ResnetBlockForward(module, x)]
    /\ UNCHANGED module
    /\ PatchUnchanged

NextResnetBlock == NewResnetBlock \/ CallResnetBlockForward

SpecResnetBlock == InitModule /\ [][NextResnetBlock]_vars

\* ---- Adapter
ChannelLists ==
    {<<320>>, <<320, 320>>, <<320, 640>>, <<640, 320>>, <<320, 640, 1280>>,
     <<320, 640, 1280, 1280>>}

NumsRb == 1..MaxRb

Cins == {64, 64 * 3}

ImageChannels == {1, 3}

ImageSizes == {8, 12, 16, 32, 64}

CubeSizes == {16, 64}

AdapterTypes == {"sketch", "seg", "keypose", "depth", "canny"}

\* A batch of images <<B, C, H, W>> whose entries are told apart by `tag`.
Images(nb, c, h, w, tag) ==
    [shape |-> <<nb, c, h, w>>, data |-> [k \in 1..nb |-> <<tag, k>>]]

\* A cube <<b, n, c, h, w>>; entry (p, q) is labelled <<p, q>>.
Cube(b, n, c, h, w) ==
    [shape |-> <<b, n, c, h, w>>,
     data |-> [p \in 1..b |-> [q \in 1..n |-> <<p, q>>]]]

NewAdapter ==
    /\ module = None
    /\ \E channels \in ChannelLists, nums_rb \in NumsRb, cin \in Cins,
          ksize \in Ksizes, sk \in BOOLEAN, use_conv \in BOOLEAN :
          module' = Adapter(channels, nums_rb, cin, ksize, sk, use_conv)
    /\ UNCHANGED call
    /\ PatchUnchanged

CallFromPretrained ==
    /\ module = None
    /\ \E adapter_type \in AdapterTypes, fetched \in BOOLEAN :
          /\ module' = FromPretrained(adapter_type, fetched)
          /\ call' = [op |-> "Adapter.from_pretrained",
                      adapter_type |-> adapter_type, fetched |-> fetched]
    /\ PatchUnchanged

CallExtractPatch ==
    /\ module.kind = "Adapter"
    /\ call.op \in {"none", "Adapter.from_pretrained"}
    /\ \E nb \in Batches, c \in ImageChannels, h \in ImageSizes, w \in ImageSizes :
          LET x == Images(nb, c, h, w, 0) IN
          call' = [op |-> "Adapter.extract_patch", x |-> x,
                   out |-> ExtractPatch(module, x)]
    /\ UNCHANGED module
    /\ PatchUnchanged

\* The cubes are square and pers has the cube's b and c.
CallForward ==
    /\ module.kind = "Adapter"
    /\ call.op \in {"none", "Adapter.from_pretrained"}
    /\ \E b \in Batches, n \in Batches, c \in ImageChannels, h \in CubeSizes,
          ph \in CubeSizes, process_idxs \in {<<>>, <<0>>} :
          LET cube == Cube(b, n, c, h, h)
              pers == Images(b, c, ph, ph, 0)
          IN  call' = [op |-> "Adapter.forward", cube |-> cube, pers |-> pers,
                       process_idxs |-> process_idxs,
                       out |-> AdapterForward(module, cube, pers, process_idxs)]
    /\ UNCHANGED module
    /\ PatchUnchanged

NextAdapter == NewAdapter \/ CallFromPretrained \/ CallExtractPatch \/ CallForward

SpecAdapter == InitModule /\ [][NextAdapter]_vars

\* ------------------------------------------------------------ patch_pipe
\* (mutant) pipe.unet assigned right after the construction.
ProgramAssignFirst ==
    <<"from_config", "assign", "load_state_dict", "to_device", "to_dtype", "eval">>

\* The statements of patch_pipe, in program order; pc indexes them.
Program ==
    <<"from_config", "load_state_dict", "to_device", "to_dtype", "eval", "assign">>

Configs == {"sd-v1", "sd-v2"}

Devices == {"cpu", "cuda"}

Dtypes == {"float32", "float16"}

\* The parameter names of a U-Net built from config.
UNetKeys(config) ==
    {"conv_in.weight", "mid_block.weight"}
        \cup (IF config = "sd-v2" THEN {"class_embedding.weight"} ELSE {})

\* A pipeline's U-Net: built from its config, weights trained.
UNet(config, device, dtype, training) ==
    [cls |-> "UNet2DConditionModel", config |-> config,
     params |-> [k \in UNetKeys(config) |-> <<"trained", k>>],
     device |-> device, dtype |-> dtype, training |-> training]

\* T2IAdapterUNet2DConditionModel.from_config(config): a new module, freshly
\* initialised, on the cpu, in float32 and in training mode, with the
\* parameters of a U-Net of that config and possibly some of its own.
T2IAdapterUNet2DConditionModel(config, own) ==
    [cls |-> "T2IAdapterUNet2DConditionModel", config |-> config,
     params |-> [k \in UNetKeys(config) \cup own |-> <<"init", k>>],
     device |-> "cpu", dtype |-> "float32", training |-> TRUE]

\* The object a name refers to.
Deref(ref, u, a) == IF ref = "unet" THEN u ELSE a

\* model.load_state_dict(sd, strict=strict): the model after the call, or
\* an error when strict and the keys differ.
LoadStateDict(model, sd, strict) ==
    IF strict /\ DOMAIN sd # DOMAIN model.params
    THEN [kind |-> "RuntimeError"]
    ELSE [model EXCEPT !.params =
             [k \in DOMAIN model.params |->
                 IF k \in DOMAIN sd THEN sd[k] ELSE model.params[k]]]

\* (mutant) a_unet.load_state_dict(a_unet.state_dict(), strict=False)
LoadFromSelf(a, p, u) == LoadStateDict(a, a.params, FALSE)

\* a_unet.load_state_dict(pipe.unet.state_dict(), strict=False)
LoadFromPipe(a, p, u) == LoadStateDict(a, Deref(p.unet, u, a).params, FALSE)

\* a_unet.to(pipe.unet.device)
ToPipeDevice(a, p, u) == [a EXCEPT !.device = Deref(p.unet, u, a).device]

\* a_unet.to(pipe.unet.dtype)
ToPipeDtype(a, p, u) == [a EXCEPT !.dtype = Deref(p.unet, u, a).dtype]

InitPatchPipe ==
    /\ module = None /\ call = NoCall
    /\ \E config \in Configs, device \in Devices, dtype \in Dtypes,
          training \in BOOLEAN : unet = UNet(config, device, dtype, training)
    /\ unet0 = unet
    /\ pipe = [unet |-> "unet"]
    /\ a_unet = None
    /\ pc = 1

AtStatement(s) == pc \in 1..Len(Program) /\ Program[pc] = s

ModuleUnchanged == UNCHANGED <<module, call>>

\* A statement raised (pc = -1): patch_pipe is left, nothing else changes.
Raised ==
    /\ pc \in 1..Len(Program)
    /\ Program[pc] \in {"from_config", "load_state_dict", "to_device", "to_dtype"}
    /\ pc' = -1
    /\ UNCHANGED <<pipe, unet, a_unet, unet0>>
    /\ ModuleUnchanged

FromConfig ==
    /\ AtStatement("from_config")
    /\ \E own \in SUBSET {"adapter.weight"} :
          a_unet' = T2IAdapterUNet2DConditionModel(
                        Deref(pipe.unet, unet, a_unet).config, own)
    /\ pc' = pc + 1
    /\ UNCHANGED <<pipe, unet, unet0>>
    /\ ModuleUnchanged

LoadWeights ==
    /\ AtStatement("load_state_dict")
    /\ a_unet' = LoadFromPipe(a_unet, pipe, unet)
    /\ pc' = pc + 1
    /\ UNCHANGED <<pipe, unet, unet0>>
    /\ ModuleUnchanged

ToDevice ==
    /\ AtStatement("to_device")
    /\ a_unet' = ToPipeDevice(a_unet, pipe, unet)
    /\ pc' = pc + 1
    /\ UNCHANGED <<pipe, unet, unet0>>
    /\ ModuleUnchanged

ToDtype ==
    /\ AtStatement("to_dtype")
    /\ a_unet' = ToPipeDtype(a_unet, pipe, unet)
    /\ pc' = pc + 1
    /\ UNCHANGED <<pipe, unet, unet0>>
    /\ ModuleUnchanged

Eval ==
    /\ AtStatement("eval")
    /\ a_unet' = [a_unet EXCEPT !.training = FALSE]
    /\ pc' = pc + 1
    /\ UNCHANGED <<pipe, unet, unet0>>
    /\ ModuleUnchanged

Assign ==
    /\ AtStatement("assign")
    /\ pipe' = [pipe EXCEPT !.unet = "a_unet"]
    /\ pc' = pc + 1
    /\ UNCHANGED <<unet, a_unet, unet0>>
    /\ ModuleUnchanged

NextPatchPipe ==
    FromConfig \/ LoadWeights \/ ToDevice \/ ToDtype \/ Eval \/ Assign \/ Raised

SpecPatchPipe == InitPatchPipe /\ [][NextPatchPipe]_vars

\* ================================================================ claims

\* ---------------------------------------------------------------- C3
\* The dimensions (1-based, among the spatial ones) that Downsample is
\* documented to downsample: all of them, the inner two when dims = 3.
Downsampled(dims) == IF dims = 3 THEN {2, 3} ELSE 1..dims

\* A finished call of Downsample.forward within the claim's conditions: the
\* input has `channels` channels, every downsampled dimension has an even
\* size, and a convolution uses the default padding 1.
C3_Case ==
    /\ module.kind = "Downsample"
    /\ call.op = "Downsample.forward"
    /\ call.x[2] = module.channels
    /\ \A i \in Downsampled(module.dims) : call.x[i + 2] % 2 = 0
    /\ module.use_conv => module.op.padding = Rep(module.dims, 1)

\* C3: Downsample.forward halves every downsampled dimension of even size in
\* both modes (strided 3x3 convolution with padding 1, average pooling); with
\* dims = 3 only the inner two dimensions are halved and the first keeps its
\* size; the output has out_channels channels, which is channels when
\* out_channels is not given.
C3_DownsampleHalves ==
    /\ C3_Case =>
          /\ call.out.err = "ok"
          /\ Len(call.out.shape) = module.dims + 2
          /\ call.out.shape[1] = call.x[1]
          /\ call.out.shape[2] = module.out_channels
          /\ \A i \in 1..module.dims :
                IF i \in Downsampled(module.dims)
                THEN 2 * call.out.shape[i + 2] = call.x[i + 2]
                ELSE call.out.shape[i + 2] = call.x[i + 2]
    /\ module.kind = "Downsample" =>
          \A padding \in Paddings :
             module = Downsample(module.channels, module.use_conv, module.dims,
                                 0, padding)
                => module.out_channels = module.channels

\* A 3-D convolutional Downsample that changes the channels, called on an
\* input whose first dimension is odd and whose inner two are even.
C3_Witness ==
    /\ C3_Case
    /\ module.dims = 3 /\ module.use_conv
    /\ module.out_channels # module.channels
    /\ call.x[3] = 3 /\ call.x[4] = 4 /\ call.x[5] = 2
    /\ call.out.shape = <<call.x[1], module.out_channels, 3, 2, 1>>

\* ---------------------------------------------------------------- C4
\* The kernel size a ResnetBlock was built with.
KsizeOf(block) == block.block2.kernel[1]

\* A call of ResnetBlock.forward on a block of odd kernel size with an input
\* of in_c channels.
C4_Case ==
    /\ module.kind = "ResnetBlock"
    /\ call.op = "ResnetBlock.forward"
    /\ KsizeOf(module) % 2 = 1
    /\ call.x[2] = module.in_c

\* The summands have the same shape and the output has out_c channels and
\* the spatial sizes <<h, w>>.
C4_Sum(h, w) ==
    /\ call.out.err = "ok"
    /\ call.out.h = call.out.skip
    /\ call.out.shape = call.out.h
    /\ call.out.shape = <<call.x[1], module.out_c, h, w>>

\* C4 as stated: for every input with in_c channels the two summands have the
\* same shape and the output has out_c channels and the input's spatial size
\* (down = False) or half of it (down = True).
C4_Original ==
    C4_Case =>
       \E h \in 1..MaxSize, w \in 1..MaxSize :
          /\ C4_Sum(h, w)
          /\ IF module.down
             THEN 2 * h = call.x[3] /\ 2 * w = call.x[4]
             ELSE h = call.x[3] /\ w = call.x[4]

\* The size Downsample gives a dimension of size n in a block with use_conv
\* (strided convolution, padding 1) or without (pooling).
C4_Half(n) ==
    IF module.down_opt.use_conv THEN (n + 1) \div 2 ELSE n \div 2

\* C4 (amended): as C4, with "half the input's" for even input sizes; a
\* downsampling block turns an odd size n into (n + 1) / 2 with use_conv and
\* into (n - 1) / 2 without, and raises, before any sum, when that is 0.
C4_ResnetBlockSum ==
    C4_Case =>
       IF ~module.down THEN C4_Sum(call.x[3], call.x[4])
       ELSE IF C4_Half(call.x[3]) = 0 \/ C4_Half(call.x[4]) = 0
            THEN call.out.err # "ok" /\ call.out.at = "down_opt"
            ELSE /\ C4_Sum(C4_Half(call.x[3]), C4_Half(call.x[4]))
                 /\ call.x[3] % 2 = 0 => 2 * call.out.shape[3] = call.x[3]
                 /\ call.x[4] % 2 = 0 => 2 * call.out.shape[4] = call.x[4]

\* A downsampling block of kernel size 3 that changes the channels, on an
\* input of even sizes.
C4_Witness ==
    /\ C4_Case
    /\ module.down /\ KsizeOf(module) = 3 /\ module.in_c # module.out_c
    /\ call.x[3] = 4 /\ call.x[4] = 2
    /\ call.out.err = "ok"
    /\ call.out.shape = <<call.x[1], module.out_c, 2, 1>>

\* ---------------------------------------------------------------- C9
\* A call of ResnetBlock.forward that reached the addition.
C9_Added ==
    /\ module.kind = "ResnetBlock"
    /\ call.op = "ResnetBlock.forward"
    /\ call.out.err = "ok" \/ call.out.at = "add"

\* Exactly one of in_conv and skep is present: in_conv iff in_c != out_c or
\* not sk, skep iff in_c == out_c and sk.  sk is read off the block: with
\* in_c == out_c, sk is what decides.
C9_ExactlyOne ==
    module.kind = "ResnetBlock" =>
       /\ (module.in_conv # None) # (module.skep # None)
       /\ \A sk \in BOOLEAN, down \in BOOLEAN, use_conv \in BOOLEAN :
             module = ResnetBlock(module.in_c, module.out_c, down,
                                  KsizeOf(module), sk, use_conv)
             => /\ module.in_conv # None <=> (module.in_c # module.out_c \/ ~sk)
                /\ module.skep # None <=> (module.in_c = module.out_c /\ sk)

\* The convolutions among the layers the shortcut summand passed through.
C9_Convs(path) == {k \in 1..Len(path) : path[k].kind = "Conv"}

\* C9 as stated: exactly one of in_conv and skep is present, and the term
\* added to the transformed branch has passed through exactly one convolution.
C9_Original ==
    /\ C9_ExactlyOne
    /\ C9_Added => Cardinality(C9_Convs(call.out.path)) = 1

\* C9 (amended): exactly one of in_conv and skep is present, and the term
\* added to the transformed branch has passed through exactly one of these
\* two, after the Downsample layer of a downsampling block (a second
\* convolution when use_conv is True); the raw block input is never added.
C9_OneProjection ==
    /\ C9_ExactlyOne
    /\ C9_Added =>
          LET path == call.out.path
              proj == {k \in 1..Len(path) : path[k].name \in {"in_conv", "skep"}}
          IN  /\ Cardinality(proj) = 1
              /\ proj = {Len(path)}
              /\ path[Len(path)].kind = "Conv"
              /\ Len(path) = IF module.down THEN 2 ELSE 1
              /\ module.down =>
                    /\ path[1].name = "down_opt"
                    /\ path[1].kind = IF module.down_opt.use_conv
                                      THEN "Conv" ELSE "AvgPool"

\* A downsampling block with a strided convolution whose forward returned:
\* the shortcut passed through down_opt's convolution and then in_conv.
C9_Witness ==
    /\ C9_Added
    /\ call.out.err = "ok"
    /\ module.down /\ module.down_opt.use_conv
    /\ module.in_conv # None
    /\ Len(call.out.path) = 2

\* ---------------------------------------------------------------- C1
\* A call of extract_patch on an Adapter with L = len(channels) and an
\* image <<B, C, H, W>> with C * 64 == cin and H, W divisible by 8 * 2^(L-1).
C1_Case ==
    /\ module.kind = "Adapter"
    /\ call.op = "Adapter.extract_patch"
    /\ call.x.shape[2] * 64 = module.conv_in.cin
    /\ call.x.shape[3] % (8 * 2 ^ (Len(module.channels) - 1)) = 0
    /\ call.x.shape[4] % (8 * 2 ^ (Len(module.channels) - 1)) = 0

\* The pyramid: L feature maps, the i-th (from 0) of batch size B, with
\* channels[i] channels and of size (H / 8) / 2^i by (W / 8) / 2^i.
C1_Pyramid ==
    /\ call.out.err = "ok"
    /\ Len(call.out.features) = Len(module.channels)
    /\ \A i \in 0..(Len(module.channels) - 1) :
          call.out.features[i + 1].shape =
             <<call.x.shape[1], module.channels[i + 1],
               (call.x.shape[3] \div 8) \div (2 ^ i),
               (call.x.shape[4] \div 8) \div (2 ^ i)>>

\* C1 as stated: for an Adapter built with any channel list and nums_rb >= 1,
\* whatever its other arguments, extract_patch returns the pyramid.
C1_Original == C1_Case => C1_Pyramid

\* C1 (amended): for an Adapter built with any channel list, nums_rb >= 1 and
\* an odd ksize, extract_patch returns the pyramid.
C1_ExtractPatchPyramid ==
    (C1_Case /\ KsizeOf(module.body[1]) % 2 = 1) => C1_Pyramid

\* Three stages of blocks of kernel size 3 with strided convolutions, on a
\* batch of two 3-channel images of 64 by 32.
C1_Witness ==
    /\ C1_Case
    /\ module.channels = <<320, 640, 1280>>
    /\ KsizeOf(module.body[1]) = 3
    /\ module.body[module.nums_rb + 1].down_opt.use_conv
    /\ call.x.shape = <<2, 3, 64, 32>>
    /\ call.out.err = "ok"
    /\ call.out.features[1].shape = <<2, 320, 8, 4>>
    /\ call.out.features[3].shape = <<2, 1280, 2, 1>>

\* ---------------------------------------------------------------- C5
\* The file registered for each conditioning type.
C5_File(adapter_type) ==
    CASE adapter_type = "sketch" -> "t2iadapter_sketch_sd14v1.pth"
      [] adapter_type = "seg" -> "t2iadapter_seg_sd14v1.pth"
      [] adapter_type = "keypose" -> "t2iadapter_keypose_sd14v1.pth"
      [] adapter_type = "depth" -> "t2iadapter_depth_sd14v1.pth"
      [] OTHER -> "none"

\* C5: for each of sketch, seg, keypose and depth, from_pretrained returns
\* (once the file is fetched) an Adapter holding the weights registered for
\* that type, with channels [320, 640, 1280, 1280], nums_rb = 2 (8 blocks),
\* ksize = 1, sk = True (no in_conv where the channels stay), use_conv = False
\* (pooling in the downsampling blocks), and a conv_in of 64 input channels
\* for sketch and 192 for the others.
C5_FromPretrained ==
    (/\ call.op = "Adapter.from_pretrained"
     /\ call.adapter_type \in {"sketch", "seg", "keypose", "depth"}
     /\ call.fetched)
    => /\ module.kind = "Adapter"
       /\ module.weights = C5_File(call.adapter_type)
       /\ module.channels = <<320, 640, 1280, 1280>>
       /\ module.nums_rb = 2
       /\ Len(module.body) = 8
       /\ \A k \in 1..8 :
             LET blk == module.body[k] IN
             /\ KsizeOf(blk) = 1
             /\ blk.in_c = blk.out_c => blk.in_conv = None /\ blk.skep # None
             /\ blk.down => blk.down_opt.op.kind = "AvgPool"
       /\ module.conv_in.cin = IF call.adapter_type = "sketch" THEN 64 ELSE 192
       /\ module.conv_in.cout = 320

\* from_pretrained("depth") has returned its adapter.
C5_Witness ==
    /\ call.op = "Adapter.from_pretrained"
    /\ call.adapter_type = "depth"
    /\ module.kind = "Adapter"
    /\ module.weights = "t2iadapter_depth_sd14v1.pth"
    /\ module.conv_in.cin = 192

\* ---------------------------------------------------------------- C6
\* <<0, 1, ..., n - 1>>
C6_Range(n) == [k \in 1..n |-> k - 1]

\* C6: the body holds len(channels) * nums_rb blocks, of which the
\* len(channels) - 1 at the positions i * nums_rb, i = 1..len(channels)-1,
\* downsample; extract_patch applies the blocks in list order from block 0,
\* each at most once and none outside the list, and a call that returns has
\* applied every block once and emitted feature i after block
\* (i + 1) * nums_rb - 1, the last of stage i.
C6_FixedTopology ==
    module.kind = "Adapter" =>
       LET L == Len(module.channels)
           nrb == module.nums_rb
           down == {k \in 0..(Len(module.body) - 1) : module.body[k + 1].down}
       IN  /\ Len(module.body) = L * nrb
           /\ down = {i * nrb : i \in 1..(L - 1)}
           /\ Cardinality(down) = L - 1
           /\ call.op = "Adapter.extract_patch" =>
                 /\ call.out.err # "IndexError"
                 /\ Len(call.out.hist) <= L * nrb
                 /\ call.out.hist = C6_Range(Len(call.out.hist))
                 /\ \A i \in 1..Len(call.out.features) :
                       call.out.features[i].hist = C6_Range(i * nrb)
                 /\ call.out.err = "ok" =>
                       /\ call.out.hist = C6_Range(L * nrb)
                       /\ Len(call.out.features) = L

\* A returned extract_patch on three stages of two blocks: blocks 2 and 4
\* downsample and the three features come after blocks 1, 3 and 5.
C6_Witness ==
    /\ module.kind = "Adapter"
    /\ call.op = "Adapter.extract_patch"
    /\ call.out.err = "ok"
    /\ module.channels = <<320, 640, 1280>> /\ module.nums_rb = 2
    /\ module.body[3].down /\ module.body[5].down
    /\ call.out.hist = <<0, 1, 2, 3, 4, 5>>
    /\ call.out.features[2].hist = <<0, 1, 2, 3>>

\* ---------------------------------------------------------------- C7
\* The channels a block's first layer takes, and those its last layer gives.
C7_BlockIn(blk) ==
    IF blk.down THEN blk.down_opt.channels
    ELSE IF blk.in_conv # None THEN blk.in_conv.cin
    ELSE blk.block1.cin

C7_BlockOut(blk) == blk.block2.cout

\* C7: conv_in gives channels[0] channels, which block 0 takes; every later
\* block takes the channels the block before it gives; and the assertion of
\* Downsample.forward never fails inside extract_patch.
C7_ChannelChain ==
    module.kind = "Adapter" =>
       /\ module.conv_in.cout = module.channels[1]
       /\ C7_BlockIn(module.body[1]) = module.channels[1]
       /\ \A k \in 2..Len(module.body) :
             /\ C7_BlockIn(module.body[k]) = C7_BlockOut(module.body[k - 1])
             /\ module.body[k].in_c = module.body[k - 1].out_c
       /\ \A k \in 1..Len(module.body) :
             /\ module.body[k].in_c = C7_BlockIn(module.body[k])
             /\ module.body[k].out_c = C7_BlockOut(module.body[k])
       /\ call.op \in {"Adapter.extract_patch", "Adapter.forward"}
             => call.out.err # "AssertionError"

\* extract_patch has run through a downsampling block that changes the
\* channels, from 320 to 640.
C7_Witness ==
    /\ module.kind = "Adapter"
    /\ call.op = "Adapter.extract_patch"
    /\ call.out.err = "ok"
    /\ module.channels = <<320, 640>>
    /\ module.body[module.nums_rb + 1].down
    /\ module.body[module.nums_rb + 1].down_opt.channels = 320
    /\ module.body[module.nums_rb + 1].out_c = 640

\* ---------------------------------------------------------------- C8
\* The single image at [p, q] of a cube, as a batch of one.
C8_Single(cube, p, q) ==
    [shape |-> <<1>> \o SubSeq(cube.shape, 3, 5), data |-> <<cube.data[p][q]>>]

\* C8: every cube feature forward returns has the shape (b, n, C_i, h_i, w_i)
\* and its slice at [p, q] is the i-th feature extract_patch yields for the
\* single image cube[p, q]; the second value is extract_patch(pers); neither
\* depends on process_idxs.
C8_ForwardSlices ==
    (module.kind = "Adapter" /\ call.op = "Adapter.forward" /\ call.out.err = "ok")
    => LET b == call.cube.shape[1]
           n == call.cube.shape[2]
       IN  /\ Len(call.out.cube) = Len(module.channels)
           /\ \A i \in 1..Len(call.out.cube), p \in 1..b, q \in 1..n :
                 LET one == ExtractPatch(module, C8_Single(call.cube, p, q)) IN
                 /\ one.err = "ok"
                 /\ call.out.cube[i].shape =
                       <<b, n>> \o Tail(one.features[i].shape)
                 /\ call.out.cube[i].hist = one.features[i].hist
                 /\ call.out.cube[i].data[p][q] = one.features[i].data[1]
                 /\ call.out.cube[i].data[p][q] = <<p, q>>
           /\ call.out.pers = ExtractPatch(module, call.pers).features

\* forward has returned for a cube of 2 by 2 images, with process_idxs given.
C8_Witness ==
    /\ module.kind = "Adapter" /\ call.op = "Adapter.forward"
    /\ call.out.err = "ok"
    /\ call.cube.shape[1] = 2 /\ call.cube.shape[2] = 2
    /\ call.process_idxs # <<>>
    /\ Len(call.out.cube) >= 2
    /\ call.out.cube[2].data[1][2] = <<1, 2>>
    /\ call.out.cube[2].data[2][1] = <<2, 1>>

\* ---------------------------------------------------------------- C2
\* patch_pipe has returned.
Returned == pc = Len(Program) + 1

\* a_unet holds every parameter of the original U-Net's state dict.
WeightsLoaded ==
    \A k \in DOMAIN unet0.params :
       k \in DOMAIN a_unet.params /\ a_unet.params[k] = unet0.params[k]

\* a_unet is on the original U-Net's device, has its dtype, is in eval mode.
Placed ==
    /\ a_unet.device = unet0.device
    /\ a_unet.dtype = unet0.dtype
    /\ a_unet.training = FALSE

\* C2: after patch_pipe(pipe) returns, pipe.unet is a new
\* T2IAdapterUNet2DConditionModel built from the original U-Net's config,
\* holding every parameter of the original state dict, on the original device
\* with the original dtype, in eval mode; it is not the original U-Net.
C2_PatchedUNet ==
    Returned =>
       /\ pipe.unet = "a_unet"
       /\ a_unet # unet
       /\ a_unet.cls = "T2IAdapterUNet2DConditionModel"
       /\ a_unet.config = unet0.config
       /\ WeightsLoaded
       /\ Placed

\* patch_pipe has returned for a U-Net that was on cuda, in float16 and in
\* training mode, and the new U-Net has a parameter of its own.
C2_Witness ==
    /\ Returned
    /\ unet0.device = "cuda" /\ unet0.dtype = "float16" /\ unet0.training
    /\ unet0.config = "sd-v2"
    /\ DOMAIN a_unet.params # DOMAIN unet0.params
    /\ a_unet.params["class_embedding.weight"] = <<"trained", "class_embedding.weight">>

\* --------------------------------------------------------------- C10
\* C10: pipe.unet is assigned only as the last step: whenever pipe.unet is
\* the new U-Net, that U-Net has been built, loaded with the original
\* weights, moved and put in eval mode, and patch_pipe has returned; when a
\* step has raised, pipe.unet is still the original U-Net; and the original
\* U-Net is never modified.
C10_AssignLast ==
    /\ pipe.unet = "a_unet" =>
          /\ Returned
          /\ a_unet.cls = "T2IAdapterUNet2DConditionModel"
          /\ WeightsLoaded
          /\ Placed
    /\ pc = -1 => pipe.unet = "unet"
    /\ ~Returned => pipe.unet = "unet"
    /\ unet = unet0

\* The move to the device raised, after the weights were loaded: pipe.unet is
\* still the original U-Net.
C10_Witness ==
    /\ pc = -1
    /\ a_unet # None
    /\ a_unet.params["conv_in.weight"] = <<"trained", "conv_in.weight">>
    /\ a_unet.device = "cpu" /\ unet0.device = "cuda"
    /\ pipe.unet = "unet"

====
